---- MODULE Spec2Model ----
(***************************************************************************)
(* The editor transform gizmo of editor/gizmo.go: the mesh builders, the   *)
(* collider generator and the mouse interaction handlers.                  *)
(*                                                                         *)
(* float32 quantities are fixed-point integers, computed exactly:          *)
(*   vertex coordinates, colours and alpha : units of 1e-6                 *)
(*   scale factors (lastScale, Scale)      : units of 1e-5                 *)
(*   mouse coordinates                     : units of 1e-1                 *)
(*   Location components                   : units of 1e-5                 *)
(*   collider centres and radii            : units of 1e-7                 *)
(* uint32 quantities are pairs <<hi, lo>> of 16-bit halves, so that        *)
(* addition wraps at 2^32 as it does in Go.                                *)
(***************************************************************************)
EXTENDS Integers, Sequences, FiniteSets, TLC

\* ------------------------------------------------------------------ uint32

Half == 65536

U32(n) == <<(n \div Half) % Half, n % Half>>

U32Add(x, y) ==
    LET lo == x[2] + y[2]
        hi == x[1] + y[1] + (lo \div Half)
    IN  <<hi % Half, lo % Half>>

U32Less(x, y) == x[1] < y[1] \/ (x[1] = y[1] /\ x[2] < y[2])

\* the value of a uint32 below 2^31 as an integer
U32Val(x) == x[1] * Half + x[2]

\* --------------------------------------------------------- mesh builders

axisDirX == 0
axisDirY == 1
axisDirZ == 2

\* mutant: the last face's pattern is one vertex too far
boxIndexPatternShifted ==
    << 0, 1, 2, 2, 3, 0,
       4, 5, 6, 6, 7, 4,
       8, 9, 10, 10, 11, 8,
       12, 13, 14, 14, 15, 12,
       16, 17, 18, 18, 19, 16,
       21, 22, 23, 23, 24, 21 >>

\* indexPattern of addAxisToVBO
boxIndexPattern ==
    << 0, 1, 2, 2, 3, 0,
       4, 5, 6, 6, 7, 4,
       8, 9, 10, 10, 11, 8,
       12, 13, 14, 14, 15, 12,
       16, 17, 18, 18, 19, 16,
       20, 21, 22, 22, 23, 20 >>

\* mutant: the offset advances by one vertex too many
boxVertCountLong == 24 + 1

boxVertCount == 24

\* the 24 vertices addAxisToVBO appends
boxVerts(xmin, xmax, ymin, ymax, zmin, zmax, r, g, b, a) ==
    << xmax, ymax, zmax, r, g, b, a, xmin, ymax, zmax, r, g, b, a, xmin, ymin, zmax, r, g, b, a, xmax, ymin, zmax, r, g, b, a,
       xmax, ymax, zmin, r, g, b, a, xmax, ymax, zmax, r, g, b, a, xmax, ymin, zmax, r, g, b, a, xmax, ymin, zmin, r, g, b, a,
       xmax, ymax, zmin, r, g, b, a, xmin, ymax, zmin, r, g, b, a, xmin, ymax, zmax, r, g, b, a, xmax, ymax, zmax, r, g, b, a,
       xmin, ymax, zmax, r, g, b, a, xmin, ymax, zmin, r, g, b, a, xmin, ymin, zmin, r, g, b, a, xmin, ymin, zmax, r, g, b, a,
       xmax, ymin, zmax, r, g, b, a, xmin, ymin, zmax, r, g, b, a, xmin, ymin, zmin, r, g, b, a, xmax, ymin, zmin, r, g, b, a,
       xmin, ymax, zmin, r, g, b, a, xmax, ymax, zmin, r, g, b, a, xmax, ymin, zmin, r, g, b, a, xmin, ymin, zmin, r, g, b, a >>

\* for _, i := range pattern { indexes = append(indexes, idxOffset+i) }
appendPattern(indexes, pattern, idxOffset) ==
    indexes \o [k \in 1..Len(pattern) |-> U32Add(U32(pattern[k]), idxOffset)]

addAxisToVBO(xmin, xmax, ymin, ymax, zmin, zmax, r, g, b, a, verts, indexes, idxOffset) ==
    [ verts     |-> verts \o boxVerts(xmin, xmax, ymin, ymax, zmin, zmax, r, g, b, a),
      indexes   |-> appendPattern(indexes, boxIndexPattern, idxOffset),
      idxOffset |-> U32Add(idxOffset, U32(boxVertCount)) ]

axisMin == 100000
axisMax == 800000
axisHalfWidth == 10000
One == 1000000
axisCount == 3
facesPerAxis == 12

buildAxisSet(a) ==
    LET x == addAxisToVBO(axisMin, axisMax, -axisHalfWidth, axisHalfWidth, -axisHalfWidth, axisHalfWidth,
                          One, 0, 0, a, << >>, << >>, U32(0))
        y == addAxisToVBO(-axisHalfWidth, axisHalfWidth, axisMin, axisMax, -axisHalfWidth, axisHalfWidth,
                          0, One, 0, a, x.verts, x.indexes, x.idxOffset)
        z == addAxisToVBO(-axisHalfWidth, axisHalfWidth, -axisHalfWidth, axisHalfWidth, axisMin, axisMax,
                          0, 0, One, a, y.verts, y.indexes, y.idxOffset)
    IN  [ verts |-> z.verts, indexes |-> z.indexes, idxOffset |-> z.idxOffset,
          faceTotal |-> U32(facesPerAxis * axisCount) ]

tetraVerts(a) ==
    <<
        850000, 35355, -35355, 1000000, 0, 0, a,
        950000, 0, 0, 1000000, 0, 0, a,
        850000, -35355, -35355, 1000000, 0, 0, a,
        850000, -35355, 35355, 1000000, 0, 0, a,
        850000, 35355, 35355, 1000000, 0, 0, a,
        -35355, -35355, 850000, 0, 0, 1000000, a,
        0, 0, 950000, 0, 0, 1000000, a,
        35355, -35355, 850000, 0, 0, 1000000, a,
        35355, 35355, 850000, 0, 0, 1000000, a,
        -35355, 35355, 850000, 0, 0, 1000000, a,
        -35355, 850000, -35355, 0, 1000000, 0, a,
        0, 950000, 0, 0, 1000000, 0, a,
        35355, 850000, -35355, 0, 1000000, 0, a,
        35355, 850000, 35355, 0, 1000000, 0, a,
        -35355, 850000, 35355, 0, 1000000, 0, a
    >>

tetraIdxPattern ==
    <<
        0, 1, 2,
        2, 1, 3,
        3, 1, 4,
        4, 1, 0,
        2, 4, 0,
        2, 3, 4,
        5, 6, 7,
        7, 6, 8,
        8, 6, 9,
        9, 6, 5,
        7, 9, 5,
        7, 8, 9,
        10, 11, 12,
        12, 11, 13,
        13, 11, 14,
        14, 11, 10,
        12, 14, 10,
        12, 13, 14
    >>

tetraVertCount == 15
\* mutant: 18 faces counted for each of the three caps
tetraFacesPerAxis == 3 * 18

tetraFaces == 18

addTetrahedrons(verts, indexes, idxOffset, faceTotal, a) ==
    [ verts     |-> verts \o tetraVerts(a),
      indexes   |-> appendPattern(indexes, tetraIdxPattern, idxOffset),
      idxOffset |-> U32Add(idxOffset, U32(tetraVertCount)),
      faceTotal |-> U32Add(faceTotal, U32(tetraFaces)) ]

squareMin == 850000
squareMax == 950000
squareDiff == 50000
squareFaces == 72

addSquares(verts, indexes, idxOffset, faceTotal, a) ==
    LET x == addAxisToVBO(squareMin, squareMax, -squareDiff, squareDiff, -squareDiff, squareDiff,
                          One, 0, 0, a, verts, indexes, idxOffset)
        y == addAxisToVBO(-squareDiff, squareDiff, squareMin, squareMax, -squareDiff, squareDiff,
                          0, One, 0, a, x.verts, x.indexes, x.idxOffset)
        z == addAxisToVBO(-squareDiff, squareDiff, -squareDiff, squareDiff, squareMin, squareMax,
                          0, 0, One, a, y.verts, y.indexes, y.idxOffset)
    IN  [ verts |-> z.verts, indexes |-> z.indexes, idxOffset |-> z.idxOffset,
          faceTotal |-> U32Add(faceTotal, U32(squareFaces)) ]

torusVerts(a) ==
    <<
        900000, 0, -62500, 1000000, 0, 0, a,
        918800, 0, -43700, 1000000, 0, 0, a,
        881200, 0, -43700, 1000000, 0, 0, a,
        900000, 31200, -54100, 1000000, 0, 0, a,
        918800, 21900, -37900, 1000000, 0, 0, a,
        881200, 21900, -37900, 1000000, 0, 0, a,
        900000, 54100, -31200, 1000000, 0, 0, a,
        918800, 37900, -21900, 1000000, 0, 0, a,
        881200, 37900, -21900, 1000000, 0, 0, a,
        900000, 62500, 0, 1000000, 0, 0, a,
        918800, 43700, 0, 1000000, 0, 0, a,
        881200, 43700, 0, 1000000, 0, 0, a,
        900000, 54100, 31200, 1000000, 0, 0, a,
        918800, 37900, 21900, 1000000, 0, 0, a,
        881200, 37900, 21900, 1000000, 0, 0, a,
        900000, 31200, 54100, 1000000, 0, 0, a,
        918800, 21900, 37900, 1000000, 0, 0, a,
        881200, 21900, 37900, 1000000, 0, 0, a,
        900000, 0, 62500, 1000000, 0, 0, a,
        918800, 0, 43700, 1000000, 0, 0, a,
        881200, 0, 43700, 1000000, 0, 0, a,
        -62500, 0, 900000, 0, 0, 1000000, a,
        -43700, 0, 918800, 0, 0, 1000000, a,
        -43700, 0, 881200, 0, 0, 1000000, a,
        -54100, 31200, 900000, 0, 0, 1000000, a,
        -37900, 21900, 918800, 0, 0, 1000000, a,
        -37900, 21900, 881200, 0, 0, 1000000, a,
        -31200, 54100, 900000, 0, 0, 1000000, a,
        -21900, 37900, 918800, 0, 0, 1000000, a,
        -21900, 37900, 881200, 0, 0, 1000000, a,
        0, 62500, 900000, 0, 0, 1000000, a,
        0, 43700, 918800, 0, 0, 1000000, a,
        0, 43700, 881200, 0, 0, 1000000, a,
        31200, 54100, 900000, 0, 0, 1000000, a,
        21900, 37900, 918800, 0, 0, 1000000, a,
        21900, 37900, 881200, 0, 0, 1000000, a,
        54100, 31200, 900000, 0, 0, 1000000, a,
        37900, 21900, 918800, 0, 0, 1000000, a,
        37900, 21900, 881200, 0, 0, 1000000, a,
        62500, 0, 900000, 0, 0, 1000000, a,
        43700, 0, 918800, 0, 0, 1000000, a,
        43700, 0, 881200, 0, 0, 1000000, a,
        0, 900000, 62500, 0, 1000000, 0, a,
        0, 918800, 43700, 0, 1000000, 0, a,
        0, 881200, 43700, 0, 1000000, 0, a,
        31200, 900000, 54100, 0, 1000000, 0, a,
        21900, 918800, 37900, 0, 1000000, 0, a,
        21900, 881200, 37900, 0, 1000000, 0, a,
        54100, 900000, 31200, 0, 1000000, 0, a,
        37900, 918800, 21900, 0, 1000000, 0, a,
        37900, 881200, 21900, 0, 1000000, 0, a,
        62500, 900000, 0, 0, 1000000, 0, a,
        43700, 918800, 0, 0, 1000000, 0, a,
        43700, 881200, 0, 0, 1000000, 0, a,
        54100, 900000, -31200, 0, 1000000, 0, a,
        37900, 918800, -21900, 0, 1000000, 0, a,
        37900, 881200, -21900, 0, 1000000, 0, a,
        31200, 900000, -54100, 0, 1000000, 0, a,
        21900, 918800, -37900, 0, 1000000, 0, a,
        21900, 881200, -37900, 0, 1000000, 0, a,
        0, 900000, -62500, 0, 1000000, 0, a,
        0, 918800, -43700, 0, 1000000, 0, a,
        0, 881200, -43700, 0, 1000000, 0, a
    >>

torusIdxPattern ==
    <<
        3, 1, 0,
        4, 2, 1,
        2, 3, 0,
        3, 7, 4,
        7, 5, 4,
        5, 6, 3,
        9, 7, 6,
        10, 8, 7,
        11, 6, 8,
        9, 13, 10,
        13, 11, 10,
        11, 12, 9,
        12, 16, 13,
        16, 14, 13,
        17, 12, 14,
        18, 16, 15,
        19, 17, 16,
        20, 15, 17,
        1, 2, 0,
        20, 19, 18,
        21, 25, 22,
        25, 23, 22,
        26, 21, 23,
        27, 25, 24,
        28, 26, 25,
        29, 24, 26,
        30, 28, 27,
        31, 29, 28,
        32, 27, 29,
        33, 31, 30,
        34, 32, 31,
        35, 30, 32,
        36, 34, 33,
        37, 35, 34,
        35, 36, 33,
        36, 40, 37,
        40, 38, 37,
        41, 36, 38,
        22, 23, 21,
        41, 40, 39,
        42, 46, 43,
        46, 44, 43,
        44, 45, 42,
        48, 46, 45,
        49, 47, 46,
        50, 45, 47,
        51, 49, 48,
        52, 50, 49,
        53, 48, 50,
        51, 55, 52,
        55, 53, 52,
        53, 54, 51,
        57, 55, 54,
        58, 56, 55,
        56, 57, 54,
        60, 58, 57,
        61, 59, 58,
        62, 57, 59,
        43, 44, 42,
        62, 61, 60,
        3, 4, 1,
        4, 5, 2,
        2, 5, 3,
        3, 6, 7,
        7, 8, 5,
        5, 8, 6,
        9, 10, 7,
        10, 11, 8,
        11, 9, 6,
        9, 12, 13,
        13, 14, 11,
        11, 14, 12,
        12, 15, 16,
        16, 17, 14,
        17, 15, 12,
        18, 19, 16,
        19, 20, 17,
        20, 18, 15,
        21, 24, 25,
        25, 26, 23,
        26, 24, 21,
        27, 28, 25,
        28, 29, 26,
        29, 27, 24,
        30, 31, 28,
        31, 32, 29,
        32, 30, 27,
        33, 34, 31,
        34, 35, 32,
        35, 33, 30,
        36, 37, 34,
        37, 38, 35,
        35, 38, 36,
        36, 39, 40,
        40, 41, 38,
        41, 39, 36,
        42, 45, 46,
        46, 47, 44,
        44, 47, 45,
        48, 49, 46,
        49, 50, 47,
        50, 48, 45,
        51, 52, 49,
        52, 53, 50,
        53, 51, 48,
        51, 54, 55,
        55, 56, 53,
        53, 56, 54,
        57, 58, 55,
        58, 59, 56,
        56, 59, 57,
        60, 61, 58,
        61, 62, 59,
        62, 60, 57
    >>

torusVertCount == 63

addToruses(verts, indexes, idxOffset, faceTotal, a) ==
    [ verts     |-> verts \o torusVerts(a),
      indexes   |-> appendPattern(indexes, torusIdxPattern, idxOffset),
      idxOffset |-> U32Add(idxOffset, U32(torusVertCount)),
      faceTotal |-> U32Add(faceTotal, U32(Len(torusIdxPattern) \div 3)) ]

alpha == 500000

\* ------------------------------------------------------------ the gizmo

VARIABLES
    shader,           \* the shader handed to CreateGizmo
    translate,        \* g.translate
    scale,            \* g.scale
    rotate,           \* g.rotate
    build,            \* buildRenderables: its position and its locals verts, indexes, idxOffset, faceTotal
    assembled,        \* the arguments the build steps taken have handed to assembleIntoRenderable
                      \* (the data uploaded to the graphics provider; the gizmo keeps no copy)
    RenderableScale,  \* g.Gizmo.Renderable.Scale
    CoarseColliders,  \* g.Gizmo.CoarseColliders
    lastScale,        \* g.lastScale
    mouseDown,        \* g.mouseDown
    lastMouseX,       \* g.lastMouseX
    lastMouseY,       \* g.lastMouseY
    axisDir,          \* g.axisDir
    Location,         \* active.Location of the component handed to OnLMBDown
    pressHit,         \* history: the first OnLMBDown call of the current press hit a collider
    pressAxis,        \* history: the first collider, in the order X, Y, Z, that call's ray hit
    pressInRange,     \* history: every coordinate passed since the press began was in [0,1]
    drags,            \* history: the number of translations applied so far
    lastCall,         \* history: the handler called last, with UpdateScale's argument
    box               \* the arguments and the result of a call of addAxisToVBO

vars == << shader, translate, scale, rotate, build, assembled, RenderableScale, CoarseColliders, lastScale,
           mouseDown, lastMouseX, lastMouseY, axisDir, Location,
           pressHit, pressAxis, pressInRange, drags, lastCall, box >>

meshVars == << shader, translate, scale, rotate, build, assembled >>
scaleVars == << RenderableScale, CoarseColliders, lastScale >>
mouseVars == << mouseDown, lastMouseX, lastMouseY, axisDir >>
pressVars == << pressHit, pressAxis, pressInRange >>

\* -- bounds and inputs

\* translations applied in one behaviour
MaxDrags == 1

\* shader handles are drawn from 0..MaxShader
MaxShader == 10

\* box coordinates are drawn from -MaxBoxCoord..MaxBoxCoord
MaxBoxCoord == 1

\* scale factors handed to UpdateScale: 1.0, 1.00001, 2.0
Scales == {100000, 100001, 200000}

\* mouse coordinates handed to OnLMBDown: x in {0.4, 0.5}, y in {-0.1, 0.5}
MouseXs == {4, 5}
MouseYs == {-1, 5}

Axes == {axisDirX, axisDirY, axisDirZ}

\* a ray is given by the colliders it intersects
Rays == { {}, {axisDirX}, {axisDirZ}, {axisDirY, axisDirZ} }

InUnitRange(m) == 0 <= m /\ m <= 10

\* -- buildRenderables

Nil == [nil |-> TRUE]

Tools == <<"translate", "scale", "rotate">>

\* the fields of the renderable; the vertex and index data go to the
\* graphics provider's buffers
assembleIntoRenderable(verts, indexes, facecount) ==
    [ FaceCount |-> facecount, Shader |-> Nil ]

addHandles(tool, verts, indexes, idxOffset, faceTotal, a) ==
    CASE tool = "translate" -> addTetrahedrons(verts, indexes, idxOffset, faceTotal, a)
      [] tool = "scale"     -> addSquares(verts, indexes, idxOffset, faceTotal, a)
      [] tool = "rotate"    -> addToruses(verts, indexes, idxOffset, faceTotal, a)

\* one tool's part of buildRenderables, run to its end
builtRenderable(tool, sh) ==
    LET s == buildAxisSet(alpha)
        m == addHandles(tool, s.verts, s.indexes, s.idxOffset, s.faceTotal, alpha)
    IN  [assembleIntoRenderable(m.verts, m.indexes, m.faceTotal) EXCEPT !.Shader = sh]

noLocals == [verts |-> << >>, indexes |-> << >>, idxOffset |-> U32(0), faceTotal |-> U32(0)]

buildDone == [tool |-> 4, step |-> 1, locals |-> noLocals]

\* verts, indexes, idxOffset, faceTotal = buildAxisSet(alpha)
BuildAxisSetStep ==
    /\ build.tool <= 3 /\ build.step = 1
    /\ build' = [build EXCEPT !.step = 2, !.locals = buildAxisSet(alpha)]
    /\ UNCHANGED << shader, translate, scale, rotate, assembled >>
    /\ UNCHANGED << scaleVars, mouseVars, Location, pressVars, drags, lastCall, box >>

\* verts, indexes, idxOffset, faceTotal = addTetrahedrons / addSquares / addToruses (...)
AddHandlesStep ==
    /\ build.tool <= 3 /\ build.step = 2
    /\ build' = [build EXCEPT !.step = 3,
                   !.locals = addHandles(Tools[build.tool], build.locals.verts, build.locals.indexes,
                                         build.locals.idxOffset, build.locals.faceTotal, alpha)]
    /\ UNCHANGED << shader, translate, scale, rotate, assembled >>
    /\ UNCHANGED << scaleVars, mouseVars, Location, pressVars, drags, lastCall, box >>

\* g.<tool> = assembleIntoRenderable(verts, indexes, faceTotal); g.<tool>.Material.Shader = shader
AssembleStep ==
    /\ build.tool <= 3 /\ build.step = 3
    /\ LET l == build.locals
           r == [assembleIntoRenderable(l.verts, l.indexes, l.faceTotal) EXCEPT !.Shader = shader]
       IN  /\ translate' = IF build.tool = 1 THEN r ELSE translate
           /\ scale' = IF build.tool = 2 THEN r ELSE scale
           /\ rotate' = IF build.tool = 3 THEN r ELSE rotate
           /\ assembled' = Append(assembled, [ tool |-> Tools[build.tool], verts |-> l.verts,
                                               indexes |-> l.indexes, facecount |-> l.faceTotal ])
    /\ build' = IF build.tool = 3
                THEN buildDone  \* buildRenderables returns
                ELSE [build EXCEPT !.tool = build.tool + 1, !.step = 1]
    /\ UNCHANGED << shader, scaleVars, mouseVars, Location, pressVars, drags, lastCall, box >>

\* -- generateColliders

colliderCenterFactor == 90
colliderRadiusFactor == 5

NewSphere(center, radius) == [Center |-> center, Radius |-> radius]

\* mutant: the Y and Z spheres appended in the wrong order
generateCollidersSwapped(sc) ==
    << NewSphere(<<colliderCenterFactor * sc, 0, 0>>, colliderRadiusFactor * sc),
       NewSphere(<<0, 0, colliderCenterFactor * sc>>, colliderRadiusFactor * sc),
       NewSphere(<<0, colliderCenterFactor * sc, 0>>, colliderRadiusFactor * sc) >>

generateColliders(sc) ==
    << NewSphere(<<colliderCenterFactor * sc, 0, 0>>, colliderRadiusFactor * sc),
       NewSphere(<<0, colliderCenterFactor * sc, 0>>, colliderRadiusFactor * sc),
       NewSphere(<<0, 0, colliderCenterFactor * sc>>, colliderRadiusFactor * sc) >>

\* -- UpdateScale

scaleEpsilon == 10

scaleDiff(last, sc) ==
    LET diff == last - sc
    IN  IF diff < 0 THEN diff * (-1) ELSE diff

\* mutant: the early return is missing
insignificantNever(last, sc) == FALSE

insignificant(last, sc) == scaleDiff(last, sc) < scaleEpsilon

\* the fields UpdateScale writes, as a record
updateScale(g, sc) ==
    IF insignificant(g.lastScale, sc)
    THEN g
    ELSE [ RenderableScale |-> <<sc, sc, sc>>,
           CoarseColliders |-> generateColliders(sc),
           lastScale       |-> sc ]

UpdateScale(sc) ==
    LET g == updateScale([ RenderableScale |-> RenderableScale,
                           CoarseColliders |-> CoarseColliders,
                           lastScale       |-> lastScale ], sc)
    IN  /\ RenderableScale' = g.RenderableScale
        /\ CoarseColliders' = g.CoarseColliders
        /\ lastScale' = g.lastScale
        /\ lastCall' = [op |-> "UpdateScale", scale |-> sc]
        /\ UNCHANGED << meshVars, mouseVars, Location, pressVars, drags, box >>

\* -- CreateGizmo

initialScale == 100000

\* new(Gizmo) followed by UpdateScale(1.0)
CreateGizmo ==
    updateScale([ RenderableScale |-> <<100000, 100000, 100000>>,
                  CoarseColliders |-> << >>,
                  lastScale       |-> 0 ], initialScale)

\* -- OnLMBDown, OnLMBUp

sentinel == -10
dragFactor == 10

\* collider.CollideVsRay(ray) reports an intersection
Intersects(axisNum, ray) == axisNum \in ray

\* the range loop over the colliders, from index axisNum on: the first hit
\* mutant: the loop does not break, the last hit wins
RECURSIVE lastHit(_, _, _)
lastHit(axisNum, n, ray) ==
    IF axisNum >= n THEN -1
    ELSE LET later == lastHit(axisNum + 1, n, ray)
         IN  IF later >= 0 THEN later
             ELSE IF Intersects(axisNum, ray) THEN axisNum ELSE -1

RECURSIVE firstHit(_, _, _)
firstHit(axisNum, n, ray) ==
    IF axisNum >= n THEN -1
    ELSE IF Intersects(axisNum, ray) THEN axisNum
    ELSE firstHit(axisNum + 1, n, ray)

missed(x, y) == x < 0 \/ y < 0

axisVec(dir) == [i \in 1..3 |-> IF i = dir + 1 THEN 1 ELSE 0]

\* mutant: the difference taken the other way round
translationReversed(last, mx, dir) ==
    LET diffX == (lastScale * dragFactor * (mx - last)) \div 10
    IN  [i \in 1..3 |-> axisVec(dir)[i] * diffX]

translation(last, mx, dir) ==
    LET diffX == (lastScale * dragFactor * (last - mx)) \div 10
    IN  [i \in 1..3 |-> axisVec(dir)[i] * diffX]

\* mutant: the tracked position is not reset on the first call
onFirstDownNoReset(mx, my, ray) ==
    LET hit == firstHit(0, Len(CoarseColliders), ray)
    IN  /\ mouseDown' = TRUE
        /\ lastMouseX' = IF hit >= 0 THEN mx ELSE lastMouseX
        /\ lastMouseY' = IF hit >= 0 THEN my ELSE lastMouseY
        /\ axisDir' = IF hit >= 0 THEN hit ELSE axisDir
        /\ UNCHANGED << Location, drags >>

\* the first call of a press: reset the tracking, test the axis handles
onFirstDown(mx, my, ray) ==
    LET hit == firstHit(0, Len(CoarseColliders), ray)
    IN  /\ mouseDown' = TRUE
        /\ lastMouseX' = IF hit >= 0 THEN mx ELSE sentinel
        /\ lastMouseY' = IF hit >= 0 THEN my ELSE sentinel
        /\ axisDir' = IF hit >= 0 THEN hit ELSE axisDir
        /\ UNCHANGED << Location, drags >>

\* a call while the button is held
onHeldDown(mx, my) ==
    IF missed(lastMouseX, lastMouseY)
    THEN UNCHANGED << mouseVars, Location, drags >>
    ELSE /\ drags < MaxDrags
         /\ Location' = [i \in 1..3 |-> Location[i] + translation(lastMouseX, mx, axisDir)[i]]
         /\ lastMouseX' = mx
         /\ lastMouseY' = my
         /\ drags' = drags + 1
         /\ UNCHANGED << mouseDown, axisDir >>

OnLMBDown(mx, my, ray) ==
    /\ IF mouseDown = FALSE
       THEN /\ onFirstDown(mx, my, ray)
            /\ lastCall' = [op |-> "OnLMBDown", held |-> FALSE]
            /\ pressHit' = (ray # {})
            /\ pressAxis' = IF ray = {} THEN -1
                            ELSE CHOOSE a \in ray : \A b \in ray : a <= b
            /\ pressInRange' = (InUnitRange(mx) /\ InUnitRange(my))
       ELSE /\ onHeldDown(mx, my)
            /\ lastCall' = [op |-> "OnLMBDown", held |-> TRUE]
            /\ pressInRange' = (pressInRange /\ InUnitRange(mx) /\ InUnitRange(my))
            /\ UNCHANGED << pressHit, pressAxis >>
    /\ UNCHANGED << meshVars, scaleVars, box >>

OnLMBUp ==
    /\ mouseDown' = FALSE
    /\ pressHit' = FALSE
    /\ pressAxis' = -1
    /\ pressInRange' = TRUE
    /\ lastCall' = [op |-> "OnLMBUp"]
    /\ UNCHANGED << meshVars, scaleVars, lastMouseX, lastMouseY, axisDir, Location, drags, box >>

\* -- a call of addAxisToVBO on arbitrary arguments

BoxCoords == (-MaxBoxCoord)..MaxBoxCoord
BoxColors == { <<One, 0, 0, alpha>>, <<0, One, One, One>> }
\* index offsets: 0, 24, 2^32 - 25, 2^32 - 24, 2^32 - 1
BoxOffsets == { U32(0), U32(24), <<65535, 65511>>, <<65535, 65512>>, <<65535, 65535>> }
BoxPrior == { [verts |-> << >>, indexes |-> << >>],
              [verts |-> <<1, 2, 3, 4, 5, 6, 7>>, indexes |-> << U32(0), U32(0), U32(0) >>] }

BoxInputs ==
    { [ called |-> FALSE, bounds |-> <<xmin, xmax, ymin, ymax, zmin, zmax>>, color |-> c,
        verts |-> prior.verts, indexes |-> prior.indexes, idxOffset |-> off ] :
        xmin \in BoxCoords, xmax \in BoxCoords, ymin \in BoxCoords, ymax \in BoxCoords,
        zmin \in BoxCoords, zmax \in BoxCoords,
        c \in BoxColors, off \in BoxOffsets, prior \in BoxPrior }

ValidBox(b) == b[1] < b[2] /\ b[3] < b[4] /\ b[5] < b[6]

CallAddAxis ==
    /\ box.called = FALSE
    /\ "bounds" \in DOMAIN box
    /\ box' = [ called |-> TRUE, bounds |-> box.bounds, color |-> box.color,
                verts |-> box.verts, indexes |-> box.indexes, idxOffset |-> box.idxOffset,
                result |-> addAxisToVBO(box.bounds[1], box.bounds[2], box.bounds[3],
                                        box.bounds[4], box.bounds[5], box.bounds[6],
                                        box.color[1], box.color[2], box.color[3], box.color[4],
                                        box.verts, box.indexes, box.idxOffset) ]
    /\ UNCHANGED << meshVars, scaleVars, mouseVars, Location, pressVars, drags, lastCall >>

\* -- specifications

\* the gizmo CreateGizmo(0) returns; the mesh data it uploaded, which no
\* handler reads, is not carried along
Init ==
    /\ shader = 0
    /\ translate = builtRenderable("translate", shader)
    /\ scale = builtRenderable("scale", shader)
    /\ rotate = builtRenderable("rotate", shader)
    /\ build = buildDone
    /\ assembled = << >>
    /\ RenderableScale = CreateGizmo.RenderableScale
    /\ CoarseColliders = CreateGizmo.CoarseColliders
    /\ lastScale = CreateGizmo.lastScale
    /\ mouseDown = FALSE
    /\ lastMouseX = 0
    /\ lastMouseY = 0
    /\ axisDir = 0
    /\ Location = <<0, 0, 0>>
    /\ pressHit = FALSE
    /\ pressAxis = -1
    /\ pressInRange = TRUE
    /\ drags = 0
    /\ lastCall = [op |-> "CreateGizmo"]
    /\ box = [called |-> FALSE]

Next ==
    \/ \E sc \in Scales : UpdateScale(sc)
    \/ \E mx \in MouseXs, my \in MouseYs, ray \in Rays : OnLMBDown(mx, my, ray)
    \/ OnLMBUp

Spec == Init /\ [][Next]_vars

\* new(Gizmo) on entry to buildRenderables(shader)
InitBuild ==
    /\ shader \in 0..MaxShader
    /\ translate = Nil
    /\ scale = Nil
    /\ rotate = Nil
    /\ build = [tool |-> 1, step |-> 1, locals |-> noLocals]
    /\ assembled = << >>
    /\ RenderableScale = <<0, 0, 0>>
    /\ CoarseColliders = << >>
    /\ lastScale = 0
    /\ mouseDown = FALSE
    /\ lastMouseX = 0
    /\ lastMouseY = 0
    /\ axisDir = 0
    /\ Location = <<0, 0, 0>>
    /\ pressHit = FALSE
    /\ pressAxis = -1
    /\ pressInRange = TRUE
    /\ drags = 0
    /\ lastCall = [op |-> "CreateGizmo"]
    /\ box = [called |-> FALSE]

NextBuild ==
    \/ BuildAxisSetStep
    \/ AddHandlesStep
    \/ AssembleStep

SpecBuild == InitBuild /\ [][NextBuild]_vars

InitBox ==
    /\ shader = 0
    /\ translate = builtRenderable("translate", shader)
    /\ scale = builtRenderable("scale", shader)
    /\ rotate = builtRenderable("rotate", shader)
    /\ build = buildDone
    /\ assembled = << >>
    /\ RenderableScale = CreateGizmo.RenderableScale
    /\ CoarseColliders = CreateGizmo.CoarseColliders
    /\ lastScale = CreateGizmo.lastScale
    /\ mouseDown = FALSE
    /\ lastMouseX = 0
    /\ lastMouseY = 0
    /\ axisDir = 0
    /\ Location = <<0, 0, 0>>
    /\ pressHit = FALSE
    /\ pressAxis = -1
    /\ pressInRange = TRUE
    /\ drags = 0
    /\ lastCall = [op |-> "CreateGizmo"]
    /\ box \in { b \in BoxInputs : ValidBox(b.bounds) }

NextBox == CallAddAxis

SpecBox == InitBox /\ [][NextBox]_vars

\* ------------------------------------------------------------ properties

FirstInOrder(ray) == CHOOSE a \in ray : \A b \in ray : a <= b

AddOnAxis(loc, axis, d) == [i \in 1..3 |-> IF i = axis + 1 THEN loc[i] + d ELSE loc[i]]

Abs(n) == IF n < 0 THEN -n ELSE n

\* C1: in a press whose first OnLMBDown call hit a collider, with every mouse
\* coordinate in [0,1], the first call leaves Location unchanged and each
\* later call adds lastScale * 10 * (lastMouseX - mx) to the locked axis'
\* component of Location only, and then tracks (mx, my).
C1_DragTranslatesLockedAxis ==
    [][ \A mx \in MouseXs, my \in MouseYs, ray \in Rays :
          (OnLMBDown(mx, my, ray) /\ InUnitRange(mx) /\ InUnitRange(my)) =>
             IF ~mouseDown
             THEN (ray # {} => Location' = Location)
             ELSE (pressHit /\ pressInRange) =>
                     /\ Location' = AddOnAxis(Location, pressAxis, lastScale * (lastMouseX - mx))
                     /\ lastMouseX' = mx
                     /\ lastMouseY' = my ]_vars

\* C1 witness: at scale 1.0, a hit on X at (0.5, 0.5), a further call at
\* (0.4, 0.5) and OnLMBUp have moved Location by (1.0, 0, 0).
C1_Witness ==
    /\ lastCall.op = "OnLMBUp"
    /\ lastScale = 100000
    /\ axisDir = axisDirX
    /\ lastMouseX = 4 /\ lastMouseY = 5
    /\ drags = 1
    /\ Location = <<100000, 0, 0>>

\* C2: in every press whose first call hit a collider, every later OnLMBDown
\* call before OnLMBUp applies the drag translation and tracks (mx, my),
\* whatever the coordinates passed.
C2_HeldCallAlwaysTranslates ==
    [][ \A mx \in MouseXs, my \in MouseYs, ray \in Rays :
          (mouseDown /\ pressHit /\ OnLMBDown(mx, my, ray)) =>
             /\ Location' = AddOnAxis(Location, pressAxis, lastScale * (lastMouseX - mx))
             /\ lastMouseX' = mx
             /\ lastMouseY' = my ]_vars

\* C3: when the first OnLMBDown call of a press hits no collider, no
\* OnLMBDown call of that press changes Location.
C3_MissedPressNeverTranslates ==
    [][ (lastCall'.op = "OnLMBDown" /\ ~pressHit') => Location' = Location ]_vars

\* C3 witness: a held call has just returned in a press that missed, after
\* an earlier press locked an axis and dragged.
C3_Witness ==
    /\ lastCall.op = "OnLMBDown" /\ lastCall.held
    /\ mouseDown /\ ~pressHit
    /\ drags >= 1
    /\ Location # <<0, 0, 0>>
    /\ lastMouseX = sentinel

\* C4: the first OnLMBDown call of a press locks the first collider, in the
\* order X, Y, Z, that its ray intersects (none if it intersects none), and
\* every translation of the press is along that axis.
C4_FirstHitLocksAxisOfPress ==
    [][ /\ \A mx \in MouseXs, my \in MouseYs, ray \in Rays :
             (~mouseDown /\ OnLMBDown(mx, my, ray)) =>
                IF ray = {}
                THEN lastMouseX' = sentinel /\ lastMouseY' = sentinel
                ELSE axisDir' = FirstInOrder(ray) /\ lastMouseX' = mx /\ lastMouseY' = my
        /\ (Location' # Location) =>
              /\ mouseDown /\ pressHit
              /\ \A i \in 1..3 : i # pressAxis + 1 => Location'[i] = Location[i] ]_vars

\* C4 witness: a press whose ray hit both Y and Z has dragged along Y.
C4_Witness ==
    /\ mouseDown /\ pressHit
    /\ pressAxis = axisDirY /\ axisDir = axisDirY
    /\ lastCall.op = "OnLMBDown" /\ lastCall.held
    /\ Location[1] = 0 /\ Location[2] # 0 /\ Location[3] = 0

\* C5: UpdateScale(scale) changes nothing when |scale - lastScale| < 1e-4;
\* otherwise it sets the renderable's Scale to (scale, scale, scale),
\* replaces the colliders by those generated for scale, and stores scale.
C5_UpdateScaleThreshold ==
    [][ \A sc \in Scales :
          (lastCall'.op = "UpdateScale" /\ lastCall'.scale = sc) =>
             IF Abs(sc - lastScale) < 10
             THEN UNCHANGED << RenderableScale, CoarseColliders, lastScale >>
             ELSE /\ RenderableScale' = <<sc, sc, sc>>
                  /\ CoarseColliders' = generateColliders(sc)
                  /\ lastScale' = sc ]_vars

\* C5 witness: UpdateScale(1.00001) has just returned with lastScale still 1.0.
C5_Witness ==
    /\ lastCall.op = "UpdateScale" /\ lastCall.scale = 100001
    /\ lastScale = 100000
    /\ RenderableScale = <<100000, 100000, 100000>>

\* C6: the collider set always holds 3 spheres, for X, Y, Z in this order,
\* centred at 0.9 * lastScale on their axis, with radius 0.05 * lastScale.
C6_CollidersFollowLastScale ==
    CoarseColliders =
        << [Center |-> <<90 * lastScale, 0, 0>>, Radius |-> 5 * lastScale],
           [Center |-> <<0, 90 * lastScale, 0>>, Radius |-> 5 * lastScale],
           [Center |-> <<0, 0, 90 * lastScale>>, Radius |-> 5 * lastScale] >>

\* C6 witness: after UpdateScale(2.0) and a drag, the centres are at 1.8 and
\* the radii are 0.1.
C6_Witness ==
    /\ lastScale = 200000
    /\ drags >= 1
    /\ CoarseColliders[1] = [Center |-> <<18000000, 0, 0>>, Radius |-> 1000000]
    /\ CoarseColliders[2] = [Center |-> <<0, 18000000, 0>>, Radius |-> 1000000]
    /\ CoarseColliders[3] = [Center |-> <<0, 0, 18000000>>, Radius |-> 1000000]

\* the sum x + k, not reduced modulo 2^32
MathAdd(x, k) == << x[1] + ((x[2] + k) \div Half), (x[2] + k) % Half >>

VertexCount(verts) == Len(verts) \div 7

\* C7: for each tool mesh, the number of indices handed to
\* assembleIntoRenderable is 3 times the face count handed to it.
C7_IndexCountIsThreeTimesFaceCount ==
    \A i \in 1..Len(assembled) :
        Len(assembled[i].indexes) = 3 * U32Val(assembled[i].facecount)

\* C8 as claimed: the face counts are 36 + 54 = 90 (translate),
\* 36 + 72 = 108 (scale) and 36 + 126 = 162 (rotate).
C8_FaceCountsClaimed ==
    \A i \in 1..Len(assembled) :
        assembled[i].facecount =
            CASE assembled[i].tool = "translate" -> U32(36 + 54)
              [] assembled[i].tool = "scale"     -> U32(36 + 72)
              [] assembled[i].tool = "rotate"    -> U32(36 + 126)

\* C8 amended: the axis triad counts 36 faces, and the face counts are
\* 36 + 18 = 54 (translate), 36 + 72 = 108 (scale), 36 + 114 = 150 (rotate).
C8_FaceCounts ==
    /\ (build.tool <= 3 /\ build.step = 2) => build.locals.faceTotal = U32(36)
    /\ \A i \in 1..Len(assembled) :
          assembled[i].facecount =
              CASE assembled[i].tool = "translate" -> U32(36 + 18)
                [] assembled[i].tool = "scale"     -> U32(36 + 72)
                [] assembled[i].tool = "rotate"    -> U32(36 + 114)
    /\ translate # Nil => translate.FaceCount = U32(54)
    /\ scale # Nil => scale.FaceCount = U32(108)
    /\ rotate # Nil => rotate.FaceCount = U32(150)

\* C8 witness: buildRenderables has returned, the three meshes assembled.
C8_Witness ==
    /\ build = buildDone
    /\ Len(assembled) = 3
    /\ translate # Nil /\ scale # Nil /\ rotate # Nil
    /\ rotate.FaceCount = U32(150)

\* C9: in each tool mesh every index is less than the number of vertices
\* (floats / 7), and the number of indices is a multiple of 3.
C9_IndexesWithinVertices ==
    \A i \in 1..Len(assembled) :
        /\ \A k \in 1..Len(assembled[i].indexes) :
              U32Less(assembled[i].indexes[k], U32(VertexCount(assembled[i].verts)))
        /\ Len(assembled[i].indexes) % 3 = 0

\* C9 witness: the three meshes are assembled, the rotate mesh with 135
\* vertices, 450 indices, and its last vertex in use.
C9_Witness ==
    /\ Len(assembled) = 3
    /\ assembled[3].tool = "rotate"
    /\ VertexCount(assembled[3].verts) = 135
    /\ Len(assembled[3].indexes) = 450
    /\ \E k \in 1..450 : assembled[3].indexes[k] = U32(134)

\* what C10 says of a call of addAxisToVBO: 24 vertices of 7 floats and 36
\* indices appended, each index in [offset, offset + 24), the earlier
\* contents kept, offset + 24 returned
BoxPost(b) ==
    LET r  == b.result
        nv == Len(b.verts)
        ni == Len(b.indexes)
    IN  /\ Len(r.verts) = nv + 24 * 7
        /\ Len(r.indexes) = ni + 36
        /\ \A k \in 1..36 :
              /\ ~U32Less(r.indexes[ni + k], b.idxOffset)
              /\ U32Less(r.indexes[ni + k], MathAdd(b.idxOffset, 24))
        /\ SubSeq(r.verts, 1, nv) = b.verts
        /\ SubSeq(r.indexes, 1, ni) = b.indexes
        /\ r.idxOffset = MathAdd(b.idxOffset, 24)

\* C10 as claimed: BoxPost for every valid box, any colour, any offset.
C10_BoxAnyOffset ==
    (box.called /\ ValidBox(box.bounds)) => BoxPost(box)

\* C10 amended: BoxPost for every valid box, any colour, and any offset
\* with offset + 24 < 2^32.
C10_BoxOffsetBelowWrap ==
    (box.called /\ ValidBox(box.bounds) /\ U32Less(MathAdd(box.idxOffset, 24), <<Half, 0>>))
        => BoxPost(box)

\* C10 witness: a call at the largest offset that does not wrap, 2^32 - 25,
\* on arrays that already hold data.
C10_Witness ==
    /\ box.called
    /\ ValidBox(box.bounds)
    /\ box.idxOffset = <<65535, 65511>>
    /\ Len(box.verts) > 0
    /\ box.result.idxOffset = <<65535, 65535>>

====
